---------------------------- MODULE Spec2Model ----------------------------
(***************************************************************************)
(* Model of sgs_zhulu_105.py: the Matcher (multi_scale_template_matching), *)
(* the Clicker (locate_and_click), the Task Runner (run_click_task) and    *)
(* the Scenario Controller (run_zhulu_105_task).                           *)
(*                                                                         *)
(* Units.  Confidences and thresholds are hundredths (0.8 is 80, -1 is     *)
(* -100).  Scale factors and click-offset ratios are percentages (1.0 is   *)
(* 100, 0.75 is 75).  The clock counts seconds.                            *)
(*                                                                         *)
(* The clock.  The program reads the clock at lines 229 and 232 only, and  *)
(* only to compare readings of one battle wait.  The origin of the clock   *)
(* being arbitrary, the reading of line 229 is taken as 0 and now is the   *)
(* time since then; it is not advanced outside the battle wait.            *)
(*                                                                         *)
(* An image is what cv2.matchTemplate/cv2.minMaxLoc can see of it: for a   *)
(* template name and a scale factor, the peak of the correlation surface   *)
(* (max_val) and its location (max_loc).                                   *)
(***************************************************************************)
EXTENDS Integers, Sequences, FiniteSets, TLC

VARIABLES
    \* ---- arguments of run_zhulu_105_task (src lines 164-171)
    confidence_threshold, scales, retry_times, max_battle_time,
    \* ---- the host: screenshot file, pointer, clock, console
    file,          \* content of the screenshot file (a screen id), NoFile before the first save
    pointer,       \* pointer position <<x, y>>
    now,           \* datetime.datetime.now(), in seconds since line 229 was last run
    output,        \* messages printed by run_zhulu_105_task, in order
    \* ---- run_zhulu_105_task
    pc,            \* position in the scenario loop
    success,       \* the local variable success
    max_time_out,  \* the local variable max_time_out
    \* ---- run_click_task (the invocation in progress)
    tpc,           \* position in run_click_task
    retry_num,     \* the local variable retry_num
    task_ret,      \* the value run_click_task returned
    \* ---- history of the run_click_task invocation in progress
    tCalls,        \* calls of locate_and_click
    tSlept,        \* seconds spent in time.sleep(delay)
    tClicks,       \* calls of pyautogui.click()
    tCaptures,     \* screenshots saved
    tStill,        \* re-checks that found the template still at or above the threshold
    failedFile,    \* the file read by the last failed locate_and_click, NoFile if none
    \* ---- history of the scenario
    iter,          \* number of the scenario iteration in progress
    clickedOn,     \* templates clicked on in this iteration
    polls,         \* battle polls made in this iteration
    lastPoll,      \* clock value when the last poll of this iteration completed
    staminaAlways, \* every capture so far shows the stamina indicator at or above the threshold
    \* ---- direct calls of the Matcher and the Clicker
    arg,           \* the arguments of the call
    unit           \* the call made and its result

vars == <<confidence_threshold, scales, retry_times, max_battle_time, file, pointer,
          now, output, pc, success, max_time_out, tpc, retry_num, task_ret, tCalls,
          tSlept, tClicks, tCaptures, tStill, failedFile, iter, clickedOn, polls, lastPoll,
          staminaAlways, arg, unit>>

\* the arguments of the run
params == <<confidence_threshold, scales, retry_times, max_battle_time>>

\* the history of the run_click_task invocation in progress
taskHist == <<tCalls, tSlept, tClicks, tCaptures, tStill, failedFile>>

-----------------------------------------------------------------------------
(* Bounds of the model *)

\* scenario iterations explored
MaxIter == 2
\* largest retry_times explored
MaxRetry == 2
\* longest time, in seconds, the screenshot, save and match of one battle poll may take
MaxLag == 1
\* longest scale list explored in direct Matcher calls
MaxScales == 2

(* Program constants *)

\* time.sleep(10) of the battle wait
PollSeconds == 10
\* best_confidence = -1
Sentinel == -100
\* best_match = None; a Python tuple is falsy only when empty, None always
None == <<>>
NoFile == "(no file)"

-----------------------------------------------------------------------------
(* Python helpers *)

\* int(a * ratio) for a >= 0 and a ratio given in percent: truncation
IntMul(a, pct) == (a * pct) \div 100

\* rounding of cv2.resize's destination size (round half to even)
RoundHalfEven(n, d) ==
    LET q == n \div d
        r == n % d
    IN  IF 2 * r < d THEN q
        ELSE IF 2 * r > d THEN q + 1
        ELSE IF q % 2 = 0 THEN q ELSE q + 1

\* bool(best_match)
Truthy(t) == t # None

-----------------------------------------------------------------------------
(* Matcher: multi_scale_template_matching, src lines 9-55 *)

\* cv2.resize(template, None, fx=scale, fy=scale): the scaled template's shape
Resize(template, scale) ==
    [w |-> RoundHalfEven(template.w * scale, 100),
     h |-> RoundHalfEven(template.h * scale, 100)]

\* cv2.minMaxLoc(cv2.matchTemplate(image, scaled_template, TM_CCOEFF_NORMED))
MinMaxLoc(image, template, scale) == image[<<template.name, scale>>]

\* mutant: a later scale replaces the best when it is at least as good
BetterOrEqual(max_val, best_confidence) == max_val >= best_confidence

\* line 46: if max_val > best_confidence
Better(max_val, best_confidence) == max_val > best_confidence

RECURSIVE ScaleLoop(_, _, _, _, _)
\* lines 34-53: the loop over scales, with the running best_confidence, best_match
ScaleLoop(image, template, rest, best_confidence, best_match) ==
    IF rest = <<>>
    THEN [confidence |-> best_confidence, match |-> best_match]
    ELSE LET scale == Head(rest)
             scaled_template == Resize(template, scale)
             peak == MinMaxLoc(image, template, scale)
         IN  IF Better(peak.max_val, best_confidence)
             THEN ScaleLoop(image, template, Tail(rest), peak.max_val,
                            <<peak.x, peak.y, scaled_template.w, scaled_template.h>>)
             ELSE ScaleLoop(image, template, Tail(rest), best_confidence, best_match)

\* lines 31-55
multi_scale_template_matching(image, template, scaleList) ==
    ScaleLoop(image, template, scaleList, Sentinel, None)

-----------------------------------------------------------------------------
(* Clicker: locate_and_click, src lines 58-98 *)

\* mutant: the threshold test is dropped, any found region is clicked
ShouldClickAnyMatch(best_match, best_confidence, threshold) == Truthy(best_match)

\* line 78: if best_match and best_confidence >= threshold
ShouldClick(best_match, best_confidence, threshold) ==
    Truthy(best_match) /\ best_confidence >= threshold

\* mutant: the offset is taken from the region's far corner
ClickPointFarCorner(best_match, offset) ==
    <<best_match[1] + best_match[3] + IntMul(best_match[3], offset[1]),
      best_match[2] + best_match[4] + IntMul(best_match[4], offset[2])>>

\* lines 79-87: click_x, click_y
ClickPoint(best_match, offset) ==
    LET x == best_match[1]
        y == best_match[2]
        width == best_match[3]
        height == best_match[4]
        x_offset == IntMul(width, offset[1])
        y_offset == IntMul(height, offset[2])
    IN  <<x + x_offset, y + y_offset>>

\* lines 74-98 as a function of the image read from image_path: the value returned,
\* the pointer position afterwards, whether click() was called, what was printed
locate_and_click(image, template, scaleList, offset, threshold, pointerBefore) ==
    LET m == multi_scale_template_matching(image, template, scaleList)
    IN  IF ShouldClick(m.match, m.confidence, threshold)
        THEN [ret |-> TRUE, pointer |-> ClickPoint(m.match, offset), click |-> TRUE,
              moved |-> TRUE, msg |-> "Clicked", confidence |-> m.confidence,
              match |-> m.match]
        ELSE [ret |-> FALSE, pointer |-> pointerBefore, click |-> FALSE,
              moved |-> FALSE, msg |-> "No match clicked", confidence |-> m.confidence,
              match |-> m.match]

-----------------------------------------------------------------------------
(* The files and the screen the scenario works on *)

\* the template files read by run_zhulu_105_task (lines 188, 202, 219, 240, 254, 267)
TemplateNames ==
    {"stage105.png", "teamselect.png", "buystamina.png", "success.png", "return.png"}

\* cv2.imread(template): the template image, known by its name and its shape
Template(name) ==
    [name |-> name,
     w |-> IF name = "buystamina.png" THEN 5 ELSE 50,
     h |-> IF name = "buystamina.png" THEN 3 ELSE 30]

\* the scale factors a caller may pass
ScaleVals == {50, 100, 150}

\* what pyautogui.screenshot() may return: the screens of the game
ScreenIds ==
    {"menu", "team", "battle", "won", "result",
     "menu_nostamina", "team_nostamina", "nostamina", "inverse"}

\* the confidence at which a screen shows a template at scale 1.0
BaseConf(screen, name) ==
    CASE screen = "inverse" -> -100
      [] screen = "menu" /\ name = "stage105.png" -> 95
      [] screen = "team" /\ name = "teamselect.png" -> 95
      [] screen = "won" /\ name = "success.png" -> 80
      [] screen = "result" /\ name = "return.png" -> 95
      [] screen = "menu_nostamina" /\ name \in {"stage105.png", "buystamina.png"} -> 95
      [] screen = "team_nostamina" /\ name \in {"teamselect.png", "buystamina.png"} -> 95
      [] screen = "nostamina" /\ name = "buystamina.png" -> 80
      [] screen = "nostamina" -> 79
      [] OTHER -> 40

\* cv2.imread(image_path): the screenshot file as the Matcher sees it.  A template
\* scaled to 0.5 correlates worse, one scaled to 1.5 exactly as well as at 1.0.
ScreenImage(screen) ==
    [k \in TemplateNames \X ScaleVals |->
        LET base == BaseConf(screen, k[1])
        IN  [max_val |-> IF k[2] = 50 /\ base > -100 THEN base - 15 ELSE base,
             x |-> 100, y |-> 200]]

\* the Matcher on the screenshot file
MatchFile(screen, name, scaleList) ==
    multi_scale_template_matching(ScreenImage(screen), Template(name), scaleList)

-----------------------------------------------------------------------------
(* Task Runner: run_click_task, src lines 101-161 *)

\* the steps of the scenario that call run_click_task
TaskSteps == {"select_stage", "select_team", "dismiss", "return"}

\* template_path of the call made at a step (lines 188, 202, 254, 267)
TaskTemplate(step) ==
    CASE step = "select_stage" -> "stage105.png"
      [] step = "select_team" -> "teamselect.png"
      [] step = "dismiss" -> "success.png"
      [] step = "return" -> "return.png"

\* click_offset of the call made at a step (lines 189, 203, 255, 268)
TaskOffset(step) ==
    CASE step = "select_stage" -> <<75, 50>>
      [] step = "select_team" -> <<90, 92>>
      [] step = "dismiss" -> <<50, 50>>
      [] step = "return" -> <<50, 50>>

\* delay of the call made at a step, in seconds (default 2 of line 108; lines 207, 272)
TaskDelay(step) == IF step \in {"select_team", "return"} THEN 3 ELSE 2

\* mutant: one attempt more than retry_times
LoopCondOffByOne(n, limit) == n <= limit

\* line 132: while retry_num < retry_times
LoopCond(n, limit) == n < limit

\* mutant: the re-check counts a template still present as a change
ChangedAlways(best_match, best_confidence, threshold) == TRUE

\* mutant: the re-check counts a confidence equal to the threshold as a change
ChangedInclusive(best_match, best_confidence, threshold) ==
    ~Truthy(best_match) \/ best_confidence <= threshold

\* line 155: if not best_match or best_confidence < threshold
Changed(best_match, best_confidence, threshold) ==
    ~Truthy(best_match) \/ best_confidence < threshold

\* history: the stamina indicator is on the captured screen
ShowsStamina(screen) ==
    MatchFile(screen, "buystamina.png", scales).confidence >= confidence_threshold

\* lines 125-129: retry_num = 0; screenshot = pyautogui.screenshot(); screenshot.save(image_path)
TaskStart ==
    /\ pc \in TaskSteps /\ tpc = "idle" /\ iter <= MaxIter
    /\ \E screen \in ScreenIds :
          /\ file' = screen
          /\ staminaAlways' = (staminaAlways /\ ShowsStamina(screen))
    /\ retry_num' = 0
    /\ tpc' = "loop"
    /\ tCaptures' = 1
    /\ UNCHANGED <<params, pointer, now, output, pc, success, max_time_out, task_ret,
                   tCalls, tSlept, tClicks, tStill, failedFile, iter, clickedOn, polls,
                   lastPoll, arg, unit>>

\* mutant: a failed Clicker call is followed by a new screenshot
AfterClickerRetake(ok) ==
    IF ~ok
    THEN /\ retry_num' = retry_num + 1 /\ tpc' = "loop" /\ failedFile' = file
         /\ \E screen \in ScreenIds :
               /\ file' = screen
               /\ staminaAlways' = (staminaAlways /\ ShowsStamina(screen))
         /\ tCaptures' = tCaptures + 1
    ELSE /\ retry_num' = retry_num /\ tpc' = "recheck" /\ failedFile' = failedFile
         /\ UNCHANGED <<file, tCaptures, staminaAlways>>

\* lines 145-147: if not success: retry_num += 1; continue (no screenshot is taken);
\* else on to the re-check
AfterClicker(ok) ==
    IF ~ok
    THEN /\ retry_num' = retry_num + 1 /\ tpc' = "loop" /\ failedFile' = file
         /\ UNCHANGED <<file, tCaptures, staminaAlways>>
    ELSE /\ retry_num' = retry_num /\ tpc' = "recheck" /\ failedFile' = failedFile
         /\ UNCHANGED <<file, tCaptures, staminaAlways>>

\* lines 132-147: one loop iteration up to the test of success: locate_and_click,
\* time.sleep(delay), and retry_num += 1; continue when the Clicker failed
TaskClick ==
    /\ pc \in TaskSteps /\ tpc = "loop"
    /\ LoopCond(retry_num, retry_times)
    /\ LET name == TaskTemplate(pc)
           r == locate_and_click(ScreenImage(file), Template(name), scales,
                                 TaskOffset(pc), confidence_threshold, pointer)
       IN  /\ pointer' = r.pointer
           /\ tCalls' = tCalls + 1
           /\ tSlept' = tSlept + TaskDelay(pc)
           /\ tClicks' = IF r.click THEN tClicks + 1 ELSE tClicks
           /\ clickedOn' = IF r.click THEN clickedOn \cup {name} ELSE clickedOn
           /\ AfterClicker(r.ret)
    /\ UNCHANGED <<params, now, output, pc, success, max_time_out, task_ret, tStill,
                   iter, polls, lastPoll, arg, unit>>

\* lines 149-159: the re-check after a click: new screenshot, Matcher on the same
\* template, return True when it is gone, else retry_num += 1
TaskRecheck ==
    /\ pc \in TaskSteps /\ tpc = "recheck"
    /\ \E screen \in ScreenIds :
          LET m == MatchFile(screen, TaskTemplate(pc), scales)
          IN  /\ file' = screen
              /\ staminaAlways' = (staminaAlways /\ ShowsStamina(screen))
              /\ IF Changed(m.match, m.confidence, confidence_threshold)
                 THEN /\ tpc' = "returned" /\ task_ret' = TRUE
                      /\ UNCHANGED <<retry_num, tStill>>
                 ELSE /\ tpc' = "loop" /\ task_ret' = task_ret
                      /\ retry_num' = retry_num + 1 /\ tStill' = tStill + 1
    /\ tCaptures' = tCaptures + 1
    /\ UNCHANGED <<params, pointer, now, output, pc, success, max_time_out, tCalls,
                   tSlept, tClicks, failedFile, iter, clickedOn, polls, lastPoll, arg, unit>>

\* lines 132, 161: the loop condition fails; return False
TaskExhausted ==
    /\ pc \in TaskSteps /\ tpc = "loop"
    /\ ~LoopCond(retry_num, retry_times)
    /\ tpc' = "returned"
    /\ task_ret' = FALSE
    /\ UNCHANGED <<params, file, pointer, now, output, pc, success, max_time_out,
                   retry_num, taskHist, iter, clickedOn, polls, lastPoll, staminaAlways,
                   arg, unit>>

-----------------------------------------------------------------------------
(* Scenario Controller: run_zhulu_105_task, src lines 164-277 *)

\* mutant: the return step prints the message of the dismiss step
StopMsgCopied(reason) ==
    CASE reason = "select_stage" -> "Enter team selection failed! End script."
      [] reason = "select_team" -> "Start battle failed! End script."
      [] reason = "stamina" -> "No stamina! End script."
      [] reason = "timeout" -> "Battle failed! End script."
      [] reason = "dismiss" -> "Click continue failed! End script."
      [] reason = "return" -> "Click continue failed! End script."

\* the messages printed when leaving the loop (lines 195, 210, 223, 248, 261, 275)
StopMsg(reason) ==
    CASE reason = "select_stage" -> "Enter team selection failed! End script."
      [] reason = "select_team" -> "Start battle failed! End script."
      [] reason = "stamina" -> "No stamina! End script."
      [] reason = "timeout" -> "Battle failed! End script."
      [] reason = "dismiss" -> "Click continue failed! End script."
      [] reason = "return" -> "Click return failed! End script."

StopReasons == {"select_stage", "select_team", "stamina", "timeout", "dismiss", "return"}

\* the messages printed when a step went well (lines 197, 225, 245, 277)
ProgressMsg(step) ==
    CASE step = "select_stage" -> "Enter statge 105."
      [] step = "stamina" -> "Start battle."
      [] step = "poll" -> "Battle succeeded."
      [] step = "return" -> "Continue to next loop."

\* the step after a run_click_task step that returned True
StepAfter(step) ==
    CASE step = "select_stage" -> "select_team"
      [] step = "select_team" -> "move_corner"
      [] step = "dismiss" -> "return"
      [] step = "return" -> "select_stage"

\* mutant: a failed step does not leave the loop
NotSuccessNever(s) == FALSE

\* lines 194, 209, 247, 260, 274: if not success
NotSuccess(s) == ~s

\* mutant: the stamina indicator never stops the scenario
NoStaminaNever(best_confidence, threshold) == FALSE

\* line 222: if best_confidence >= confidence_threshold
NoStamina(best_confidence, threshold) == best_confidence >= threshold

\* mutant: the deadline is never tested
BeforeDeadlineAlways(t, deadline) == TRUE

\* mutant: a poll is still started at the deadline itself
BeforeDeadlineInclusive(t, deadline) == t <= deadline

\* line 232: while datetime.datetime.now() < max_time_out
BeforeDeadline(t, deadline) == t < deadline

\* mutant: any poll ends the wait as a success
BattleWonAlways(best_confidence, threshold) == TRUE

\* line 243: if best_confidence >= confidence_threshold
BattleWon(best_confidence, threshold) == best_confidence >= threshold

\* the history of a run_click_task invocation that has not started
NoTaskHist ==
    /\ tCalls' = 0 /\ tSlept' = 0 /\ tClicks' = 0 /\ tCaptures' = 0 /\ tStill' = 0
    /\ failedFile' = NoFile

\* lines 186-197, 200-211, 252-262, 265-277 after the call: success = run_click_task(...);
\* if not success: print(...); break; else the step's print, then the next step
\* (after the last step, the next iteration of while True)
TaskResult ==
    /\ pc \in TaskSteps /\ tpc = "returned"
    /\ success' = task_ret
    /\ IF NotSuccess(task_ret)
       THEN /\ output' = Append(output, StopMsg(pc))
            /\ pc' = "stopped"
            /\ UNCHANGED <<iter, clickedOn, polls, lastPoll, now>>
       ELSE /\ output' = IF pc \in {"select_stage", "return"}
                         THEN Append(output, ProgressMsg(pc))
                         ELSE output
            /\ pc' = StepAfter(pc)
            /\ IF pc = "return"
               THEN /\ iter' = iter + 1 /\ clickedOn' = {} /\ polls' = 0
                    /\ lastPoll' = 0 /\ now' = 0
               ELSE UNCHANGED <<iter, clickedOn, polls, lastPoll, now>>
    /\ tpc' = "idle"
    /\ retry_num' = 0
    /\ NoTaskHist
    /\ UNCHANGED <<params, file, pointer, max_time_out, task_ret, staminaAlways, arg,
                   unit>>

\* line 214: pyautogui.moveTo(4, 4, duration=0.5)
MoveCorner ==
    /\ pc = "move_corner"
    /\ pointer' = <<4, 4>>
    /\ pc' = "check_stamina"
    /\ UNCHANGED <<params, file, now, output, success, max_time_out, tpc, retry_num,
                   task_ret, taskHist, iter, clickedOn, polls, lastPoll, staminaAlways,
                   arg, unit>>

\* mutant: the stamina check takes a new screenshot before matching
StaminaCheckRetake ==
    /\ pc = "check_stamina"
    /\ \E screen \in ScreenIds :
          LET m == MatchFile(screen, "buystamina.png", scales)
          IN  /\ file' = screen
              /\ staminaAlways' = (staminaAlways /\ ShowsStamina(screen))
              /\ IF m.confidence >= confidence_threshold
                 THEN /\ output' = Append(output, "No stamina! End script.")
                      /\ pc' = "stopped"
                      /\ UNCHANGED <<success, max_time_out, now>>
                 ELSE /\ output' = Append(output, "Start battle.")
                      /\ success' = FALSE
                      /\ now' = 0
                      /\ max_time_out' = now' + max_battle_time
                      /\ pc' = "wait"
    /\ UNCHANGED <<params, pointer, tpc, retry_num, task_ret, taskHist, iter,
                   clickedOn, polls, lastPoll, arg, unit>>

\* lines 217-231: the stamina check on the screenshot file as it is; when it does not
\* stop the scenario: success = False; max_time_out = now() + max_battle_time
StaminaCheck ==
    /\ pc = "check_stamina"
    /\ LET m == MatchFile(file, "buystamina.png", scales)
       IN  IF NoStamina(m.confidence, confidence_threshold)
           THEN /\ output' = Append(output, StopMsg("stamina"))
                /\ pc' = "stopped"
                /\ UNCHANGED <<success, max_time_out, now>>
           ELSE /\ output' = Append(output, ProgressMsg("stamina"))
                /\ success' = FALSE
                /\ now' = 0
                /\ max_time_out' = now' + max_battle_time
                /\ pc' = "wait"
    /\ UNCHANGED <<params, file, pointer, tpc, retry_num, task_ret, taskHist, iter,
                   clickedOn, polls, lastPoll, staminaAlways, arg, unit>>

\* lines 232-246: one iteration of the battle wait: the deadline test, time.sleep(10),
\* screenshot, Matcher on success.png; a match ends the wait (break, then line 247)
Poll ==
    /\ pc = "wait"
    /\ BeforeDeadline(now, max_time_out)
    /\ \E screen \in ScreenIds, lag \in 0..MaxLag :
          LET m == MatchFile(screen, "success.png", scales)
          IN  /\ file' = screen
              /\ now' = now + PollSeconds + lag
              /\ staminaAlways' = (staminaAlways /\ ShowsStamina(screen))
              /\ IF BattleWon(m.confidence, confidence_threshold)
                 THEN /\ success' = TRUE
                      /\ output' = Append(output, ProgressMsg("poll"))
                      /\ pc' = "dismiss"
                 ELSE UNCHANGED <<success, output, pc>>
    /\ polls' = polls + 1
    /\ lastPoll' = now'
    /\ UNCHANGED <<params, pointer, max_time_out, tpc, retry_num, task_ret, taskHist,
                   iter, clickedOn, arg, unit>>

\* lines 232, 247-249: the deadline has passed at the loop test; success is still
\* False: print("Battle failed! End script."); break
WaitTimeout ==
    /\ pc = "wait"
    /\ ~BeforeDeadline(now, max_time_out)
    /\ NotSuccess(success)
    /\ output' = Append(output, StopMsg("timeout"))
    /\ pc' = "stopped"
    /\ UNCHANGED <<params, file, pointer, now, success, max_time_out, tpc, retry_num,
                   task_ret, taskHist, iter, clickedOn, polls, lastPoll, staminaAlways,
                   arg, unit>>

-----------------------------------------------------------------------------
(* The scenario, for the arguments a caller may pass *)

Thresholds == {0, 80, 100}
RetryLimits == -1..MaxRetry
BattleTimes == {-5, 0, 15, 20}
ScaleLists == {<<100>>, <<50, 100, 150>>}

NoCall == [op |-> "none"]

Init ==
    /\ confidence_threshold \in Thresholds
    /\ scales \in ScaleLists
    /\ retry_times \in RetryLimits
    /\ max_battle_time \in BattleTimes
    /\ file = NoFile
    /\ pointer = <<0, 0>>
    /\ now = 0
    /\ output = <<>>
    /\ pc = "select_stage"
    /\ success = TRUE
    /\ max_time_out = 0
    /\ tpc = "idle"
    /\ retry_num = 0
    /\ task_ret = FALSE
    /\ tCalls = 0 /\ tSlept = 0 /\ tClicks = 0 /\ tCaptures = 0 /\ tStill = 0
    /\ failedFile = NoFile
    /\ iter = 1
    /\ clickedOn = {}
    /\ polls = 0
    /\ lastPoll = 0
    /\ staminaAlways = TRUE
    /\ arg = NoCall
    /\ unit = NoCall

Next ==
    \/ TaskStart
    \/ TaskClick
    \/ TaskRecheck
    \/ TaskExhausted
    \/ TaskResult
    \/ MoveCorner
    \/ StaminaCheck
    \/ Poll
    \/ WaitTimeout

Spec == Init /\ [][Next]_vars

-----------------------------------------------------------------------------
(* Direct calls of the Matcher and the Clicker, for the arguments a caller may pass *)

\* the peak values an image may show
PeakVals == {-100, 40, 80, 95}

\* where an image shows its peak for a scale
PeakLoc(scale) ==
    CASE scale = 50 -> <<0, 0>>
      [] scale = 100 -> <<100, 200>>
      [] scale = 150 -> <<10, 20>>

\* the images: one peak value per scale
Images ==
    {[k \in {"stage105.png"} \X ScaleVals |->
         [max_val |-> v[k[2]], x |-> PeakLoc(k[2])[1], y |-> PeakLoc(k[2])[2]]] :
     v \in [ScaleVals -> PeakVals]}

\* the templates: two shapes
Shapes == {[name |-> "stage105.png", w |-> 50, h |-> 30],
           [name |-> "stage105.png", w |-> 5, h |-> 3]}

\* the scale lists, the empty one included
SeqsUpTo(n) == UNION {[1..k -> ScaleVals] : k \in 0..n}

Offsets == {<<0, 0>>, <<75, 50>>, <<90, 92>>, <<100, 100>>}
CallThresholds == {0, 50, 80, 100}

InitFn ==
    /\ arg \in [image : Images, template : Shapes, scales : SeqsUpTo(MaxScales),
                offset : Offsets, threshold : CallThresholds]
    /\ unit = NoCall
    /\ confidence_threshold = 80
    /\ scales = <<100>>
    /\ retry_times = 0
    /\ max_battle_time = 0
    /\ file = NoFile
    /\ pointer = <<0, 0>>
    /\ now = 0
    /\ output = <<>>
    /\ pc = "stopped"
    /\ success = TRUE
    /\ max_time_out = 0
    /\ tpc = "idle"
    /\ retry_num = 0
    /\ task_ret = FALSE
    /\ tCalls = 0 /\ tSlept = 0 /\ tClicks = 0 /\ tCaptures = 0 /\ tStill = 0
    /\ failedFile = NoFile
    /\ iter = 1
    /\ clickedOn = {}
    /\ polls = 0
    /\ lastPoll = 0
    /\ staminaAlways = TRUE

scenarioVars == <<params, file, now, output, pc, success, max_time_out, tpc, retry_num,
                  task_ret, taskHist, iter, clickedOn, polls, lastPoll, staminaAlways>>

\* a call of multi_scale_template_matching (lines 9-55)
CallMatcher ==
    /\ unit = NoCall /\ arg # NoCall
    /\ LET m == multi_scale_template_matching(arg.image, arg.template, arg.scales)
       IN  unit' = [op |-> "match", confidence |-> m.confidence, match |-> m.match]
    /\ UNCHANGED <<scenarioVars, pointer, arg>>

\* a call of locate_and_click (lines 58-98)
CallClicker ==
    /\ unit = NoCall /\ arg # NoCall
    /\ LET r == locate_and_click(arg.image, arg.template, arg.scales, arg.offset,
                                 arg.threshold, pointer)
       IN  /\ unit' = [op |-> "click", ret |-> r.ret, click |-> r.click,
                       moved |-> r.moved, msg |-> r.msg, confidence |-> r.confidence,
                       match |-> r.match]
           /\ pointer' = r.pointer
    /\ UNCHANGED <<scenarioVars, arg>>

NextFn ==
    \/ CallMatcher
    \/ CallClicker

SpecFn == InitFn /\ [][NextFn]_vars

-----------------------------------------------------------------------------
(* Properties of run_click_task *)

\* the Matcher's verdict on a screenshot file, written out: no region, or a
\* confidence strictly below the threshold
Gone(screen, name) ==
    LET m == MatchFile(screen, name, scales)
    IN  m.match = None \/ m.confidence < confidence_threshold

\* C1: run_click_task returns True only in the re-check that follows a click of the
\* same loop iteration: the step that returns True starts after a successful
\* Clicker call whose click has not been re-checked yet, takes one new screenshot,
\* finds the template gone from it (no region or confidence below the threshold),
\* and issues no click, sleep, pointer move or further capture.
C1_TrueOnlyAfterRecheck ==
    [][(tpc' = "returned" /\ tpc # "returned" /\ task_ret')
         => /\ tpc = "recheck"
            /\ tClicks >= 1 /\ tClicks = tStill + 1
            /\ tCalls = retry_num + 1
            /\ tCaptures' = tCaptures + 1
            /\ Gone(file', TaskTemplate(pc))
            /\ tClicks' = tClicks /\ tCalls' = tCalls /\ tSlept' = tSlept
            /\ pointer' = pointer /\ retry_num' = retry_num
            /\ tCaptures' = tClicks' + 1]_vars

\* C1 witness: a True return on the second attempt, after an ineffective click
C1_Witness ==
    tpc = "returned" /\ task_ret /\ tClicks = 2 /\ tStill = 1

Max0(n) == IF n > 0 THEN n ELSE 0

\* C2 as stated: a False return comes after exactly retry_times loop iterations, each
\* a failed Clicker call or a click whose re-check found the template still there,
\* with the attempt counter equal to retry_times.
C2_Original ==
    (pc \in TaskSteps /\ tpc = "returned" /\ ~task_ret)
        => /\ tCalls = retry_times
           /\ retry_num = retry_times
           /\ (tCalls - tClicks) + tStill = tCalls

\* C2 amended: a False return comes after exactly max(retry_times, 0) loop iterations,
\* each a failed Clicker call or a click whose re-check found the template still
\* there, with the attempt counter equal to max(retry_times, 0).
C2_FalseAfterAllRetries ==
    (pc \in TaskSteps /\ tpc = "returned" /\ ~task_ret)
        => /\ tCalls = Max0(retry_times)
           /\ retry_num = Max0(retry_times)
           /\ (tCalls - tClicks) + tStill = tCalls
           /\ tStill = tClicks

\* C2 witness: a False return after two attempts, one of them an ineffective click
C2_Witness ==
    /\ pc \in TaskSteps /\ tpc = "returned" /\ ~task_ret
    /\ retry_times = 2 /\ tCalls = 2 /\ tStill >= 1

-----------------------------------------------------------------------------
(* Properties of locate_and_click *)

\* the Matcher's answer for the arguments of the direct call
ArgMatch == multi_scale_template_matching(arg.image, arg.template, arg.scales)

\* C3: locate_and_click neither moves the pointer nor clicks, and returns False, when
\* the confidence is strictly below the threshold; it moves, clicks and returns True
\* exactly when a region was found and the confidence is at least the threshold.
C3_NoClickBelowThreshold ==
    unit.op = "click"
        => /\ ArgMatch.confidence < arg.threshold
                => (~unit.click /\ ~unit.moved /\ ~unit.ret /\ pointer = <<0, 0>>)
           /\ (unit.click /\ unit.moved /\ unit.ret)
                <=> (ArgMatch.match # None /\ ArgMatch.confidence >= arg.threshold)
           /\ unit.click = unit.ret /\ unit.moved = unit.ret

\* C3 witness: a region found just below the threshold, and no click
C3_Witness ==
    /\ unit.op = "click" /\ ~unit.click /\ ~unit.ret
    /\ ArgMatch.match # None /\ ArgMatch.confidence = 40 /\ arg.threshold = 50

-----------------------------------------------------------------------------
(* Properties of run_zhulu_105_task *)

\* C4: as long as every screenshot shows the stamina indicator at or above the
\* threshold, the scenario is in its first iteration, at or before the stamina
\* check or stopped there (or at a failed step before it): no battle poll was made
\* and neither success.png nor return.png was clicked.
C4_StaminaStopsBeforeBattle ==
    staminaAlways
        => /\ iter = 1
           /\ polls = 0
           /\ clickedOn \cap {"success.png", "return.png"} = {}
           /\ pc \in {"select_stage", "select_team", "move_corner", "check_stamina",
                      "stopped"}
           /\ pc = "stopped"
                => output[Len(output)] \in {"Enter team selection failed! End script.",
                                            "Start battle failed! End script.",
                                            "No stamina! End script."}

\* C4 witness: stopped at the stamina check with the indicator shown all along
C4_Witness ==
    /\ pc = "stopped" /\ staminaAlways /\ file # NoFile
    /\ output = <<"Enter statge 105.", "No stamina! End script.">>

\* C5 as stated: the scenario goes on to the dismiss step only when a poll saw the
\* success template within max_battle_time of the start of the wait; a match seen
\* by a poll that completes after the deadline ends in the timeout failure instead.
C5_NoSuccessAfterDeadline ==
    (pc \in {"dismiss", "return"} /\ iter <= MaxIter) => lastPoll <= max_time_out

\* C6: a False result of run_click_task at any of the four steps makes the scenario
\* print that step's message and leave the loop at once, with no capture, match,
\* pointer move or click in between, and nothing at all happens once it has stopped.
C6_FailedStepIsFatal ==
    [][/\ (pc \in TaskSteps /\ tpc = "returned" /\ ~task_ret)
            => /\ pc' = "stopped"
               /\ Len(output') = Len(output) + 1
               /\ UNCHANGED <<file, pointer, now, polls, clickedOn, iter>>
       /\ pc = "stopped" => UNCHANGED vars]_vars

\* C6 witness: stopped by the failure of the dismiss step, the third mandatory step
C6_Witness ==
    /\ pc = "stopped" /\ ~success /\ tpc = "idle"
    /\ output[Len(output)] = "Click continue failed! End script."

-----------------------------------------------------------------------------
(* Properties of multi_scale_template_matching *)

\* the peak the image shows for the i-th scale of the direct call
ArgPeak(i) == arg.image[<<arg.template.name, arg.scales[i]>>]

\* C7 as stated: for a non-empty scale list the Matcher returns the largest per-scale
\* peak as confidence, and as region the peak location and the scaled template's
\* width and height of the earliest scale in the list that attains it.
C7_BestOverScales ==
    (unit.op = "match" /\ arg.scales # <<>>)
        => LET idx == 1..Len(arg.scales)
               top == CHOOSE i \in idx : \A j \in idx : ArgPeak(j).max_val <= ArgPeak(i).max_val
               first == CHOOSE i \in idx :
                           /\ ArgPeak(i).max_val = ArgPeak(top).max_val
                           /\ \A j \in idx : ArgPeak(j).max_val = ArgPeak(top).max_val => i <= j
               shape == Resize(arg.template, arg.scales[first])
           IN  /\ unit.confidence = ArgPeak(top).max_val
               /\ unit.match = <<ArgPeak(first).x, ArgPeak(first).y, shape.w, shape.h>>

-----------------------------------------------------------------------------
(* The click point *)

\* C8: when locate_and_click clicks, the click point is the region's top-left corner
\* plus the truncated products of its width and height with the offset ratios; it
\* lies inside the region, and for region (100, 200, 50, 30) and offset (0.75, 0.5)
\* it is (137, 215).
C8_ClickPoint ==
    (unit.op = "click" /\ unit.click)
        => LET x == unit.match[1]
               y == unit.match[2]
               width == unit.match[3]
               height == unit.match[4]
           IN  /\ unit.match = ArgMatch.match
               /\ pointer[1] = x + (width * arg.offset[1]) \div 100
               /\ pointer[2] = y + (height * arg.offset[2]) \div 100
               /\ x <= pointer[1] /\ pointer[1] <= x + width
               /\ y <= pointer[2] /\ pointer[2] <= y + height
               /\ (unit.match = <<100, 200, 50, 30>> /\ arg.offset = <<75, 50>>)
                     => pointer = <<137, 215>>

\* C8 witness: the click of the example, region (100, 200, 50, 30), offset (0.75, 0.5)
C8_Witness ==
    /\ unit.op = "click" /\ unit.click
    /\ unit.match = <<100, 200, 50, 30>> /\ arg.offset = <<75, 50>>
    /\ unit.confidence = 95 /\ arg.threshold = 80

-----------------------------------------------------------------------------
(* The ways out of the scenario loop *)

\* the six messages of the stop conditions
StopTexts ==
    {"Enter team selection failed! End script.", "Start battle failed! End script.",
     "No stamina! End script.", "Battle failed! End script.",
     "Click continue failed! End script.", "Click return failed! End script."}

\* the number of stop messages printed so far
StopsPrinted == Cardinality({i \in 1..Len(output) : output[i] \in StopTexts})

\* C9, in a state: the six stop conditions print six different messages; a stopped
\* scenario has printed exactly one of them, as its last message, a running one none
C9_State ==
    /\ \A r1, r2 \in StopReasons : r1 # r2 => StopMsg(r1) # StopMsg(r2)
    /\ {StopMsg(r) : r \in StopReasons} = StopTexts
    /\ pc = "stopped" => (StopsPrinted = 1 /\ output[Len(output)] \in StopTexts)
    /\ pc # "stopped" => StopsPrinted = 0

\* C9, in a step: the loop is left only by a failed step (with that step's message),
\* by the stamina indicator or by the battle timeout; a return step that succeeded
\* leads back to the stage selection of the next iteration
C9_Step ==
    /\ (pc' = "stopped" /\ pc # "stopped")
          => \/ /\ pc \in TaskSteps /\ tpc = "returned" /\ ~task_ret
                /\ output' = Append(output,
                      CASE pc = "select_stage" -> "Enter team selection failed! End script."
                        [] pc = "select_team" -> "Start battle failed! End script."
                        [] pc = "dismiss" -> "Click continue failed! End script."
                        [] pc = "return" -> "Click return failed! End script.")
             \/ /\ pc = "check_stamina"
                /\ MatchFile(file, "buystamina.png", scales).confidence >= confidence_threshold
                /\ output' = Append(output, "No stamina! End script.")
             \/ /\ pc = "wait" /\ now >= max_time_out /\ ~success
                /\ output' = Append(output, "Battle failed! End script.")
    /\ (pc = "return" /\ tpc = "returned" /\ task_ret)
          => (pc' = "select_stage" /\ tpc' = "idle" /\ iter' = iter + 1)

\* C9: the scenario leaves its loop only through one of six stop conditions, each
\* with its own message, exactly one of which is printed per run; while none occurs
\* the return step leads back to the stage selection.
C9_SixStopConditions == [](C9_State) /\ [][C9_Step]_vars

\* C9 witness: a second iteration was started and the run then stopped on a timeout
C9_Witness ==
    /\ pc = "stopped" /\ iter = 2
    /\ output[Len(output)] = "Battle failed! End script."
    /\ StopsPrinted = 1

-----------------------------------------------------------------------------
(* Screenshots within one run_click_task invocation *)

\* C10: within one run_click_task invocation the screenshot is taken once before the
\* loop and then only after a click: outside the re-check the captures number one
\* more than the clicks (as many while a click awaits its re-check), and from a
\* failed Clicker call on the file stays the one that call read, so every later
\* Clicker call reads the same screenshot.
C10_CaptureOnlyAfterClick ==
    (pc \in TaskSteps /\ tpc # "idle")
        => /\ tpc \in {"loop", "returned"} => tCaptures = 1 + tClicks
           /\ tpc = "recheck" => tCaptures = tClicks
           /\ failedFile # NoFile => file = failedFile

\* C10 witness: a second Clicker call made after a failed one, on the same file
C10_Witness ==
    /\ pc \in TaskSteps /\ tpc = "returned" /\ ~task_ret
    /\ failedFile # NoFile /\ file = failedFile /\ tCalls = 2 /\ tCaptures = 1

-----------------------------------------------------------------------------
(* The Matcher's result is a recorded match *)

\* C11 as stated: for every non-empty scale list the Matcher returns a recorded
\* match: a region, and as confidence the peak of one of the scales; it never
\* returns the sentinel -1 together with no region.
C11_AlwaysRecorded ==
    (unit.op = "match" /\ arg.scales # <<>>)
        => /\ unit.match # None
           /\ \E i \in 1..Len(arg.scales) :
                 /\ unit.confidence = ArgPeak(i).max_val
                 /\ unit.match[1] = ArgPeak(i).x /\ unit.match[2] = ArgPeak(i).y
           /\ ~(unit.confidence = Sentinel /\ unit.match = None)

-----------------------------------------------------------------------------
(* The order of the steps of one iteration *)

\* the success template is on a screenshot at or above the threshold
ShowsSuccess(screen) ==
    LET m == MatchFile(screen, "success.png", scales)
    IN  m.confidence >= confidence_threshold

\* C12, in a state: the clicks of an iteration follow the step order: a template is
\* clicked only from its own step on, the success template only after a poll, and
\* each click only after the clicks of the earlier steps
C12_State ==
    /\ pc = "select_stage" => clickedOn \subseteq {"stage105.png"}
    /\ pc = "select_team"
          => ("stage105.png" \in clickedOn
              /\ clickedOn \subseteq {"stage105.png", "teamselect.png"})
    /\ pc \in {"move_corner", "check_stamina", "wait"}
          => clickedOn = {"stage105.png", "teamselect.png"}
    /\ pc = "dismiss"
          => ({"stage105.png", "teamselect.png"} \subseteq clickedOn
              /\ "return.png" \notin clickedOn)
    /\ pc = "return" => {"stage105.png", "teamselect.png", "success.png"} \subseteq clickedOn
    /\ "success.png" \in clickedOn
          => (polls >= 1 /\ {"stage105.png", "teamselect.png"} \subseteq clickedOn)
    /\ "return.png" \in clickedOn => "success.png" \in clickedOn
    /\ "buystamina.png" \notin clickedOn
    /\ polls >= 1 => {"stage105.png", "teamselect.png"} \subseteq clickedOn

\* C12, in a step: a step is entered only from the step before it, once that one
\* completed without stopping: a task step by a True result, the stamina check by
\* an indicator below the threshold, the battle wait by a poll whose screenshot
\* shows the success template at or above the threshold
C12_Step ==
    /\ (pc' # pc /\ pc' # "stopped")
          => \/ /\ pc = "select_stage" /\ pc' = "select_team"
                /\ tpc = "returned" /\ task_ret
             \/ /\ pc = "select_team" /\ pc' = "move_corner"
                /\ tpc = "returned" /\ task_ret
             \/ /\ pc = "move_corner" /\ pc' = "check_stamina"
             \/ /\ pc = "check_stamina" /\ pc' = "wait"
                /\ MatchFile(file, "buystamina.png", scales).confidence
                      < confidence_threshold
             \/ /\ pc = "wait" /\ pc' = "dismiss"
                /\ polls' = polls + 1 /\ ShowsSuccess(file') /\ iter' = iter
             \/ /\ pc = "dismiss" /\ pc' = "return"
                /\ tpc = "returned" /\ task_ret
             \/ /\ pc = "return" /\ pc' = "select_stage"
                /\ tpc = "returned" /\ task_ret /\ iter' = iter + 1
    /\ clickedOn' # clickedOn
          => \/ clickedOn' = {} /\ pc = "return" /\ pc' = "select_stage"
             \/ /\ pc \in TaskSteps /\ pc' = pc
                /\ clickedOn' = clickedOn \cup
                      {CASE pc = "select_stage" -> "stage105.png"
                         [] pc = "select_team" -> "teamselect.png"
                         [] pc = "dismiss" -> "success.png"
                         [] pc = "return" -> "return.png"}

\* C12: in every iteration the steps run in the order select stage, select team,
\* move to the corner, stamina check, battle poll, dismiss, return, each started
\* only after the one before completed without stopping; the success template is
\* clicked only after a poll of the iteration saw it at or above the threshold, and
\* the return template only after the dismiss task returned True.
C12_FixedStepOrder == [](C12_State) /\ [][C12_Step]_vars

\* C12 witness: the return click of the second iteration
C12_Witness ==
    /\ iter = 2 /\ pc = "return" /\ tpc = "recheck"
    /\ clickedOn = {"stage105.png", "teamselect.png", "success.png", "return.png"}
    /\ polls >= 1

-----------------------------------------------------------------------------
(* The stamina check *)

\* C13, in a state: from the True return of the team step to the first poll the
\* file is the re-check capture of that step, the one the team template was found
\* gone from; after the move the pointer rests at the corner (4, 4), and only the
\* stage and the team template have been clicked
C13_State ==
    /\ pc \in {"move_corner", "check_stamina"}
          => (Gone(file, "teamselect.png") /\ tpc = "idle" /\ tCaptures = 0)
    /\ (pc = "check_stamina" \/ (pc = "wait" /\ polls = 0))
          => (pointer = <<4, 4>> /\ clickedOn = {"stage105.png", "teamselect.png"})

\* C13, in a step: the file the stamina check reads is written last by the re-check
\* capture of the team step that returned True; the move to the corner and the
\* stamina check leave the file alone, click nothing and take no screenshot; the
\* check leaves the pointer alone and stops the scenario exactly when the Matcher
\* finds the indicator on that file at or above the threshold
C13_Step ==
    /\ (pc = "select_team" /\ tpc # "returned" /\ tpc' = "returned" /\ task_ret')
          => (tpc = "recheck" /\ tCaptures' = tCaptures + 1 /\ pointer' = pointer)
    /\ (pc = "select_team" /\ pc' = "move_corner")
          => UNCHANGED <<file, pointer, clickedOn, polls>>
    /\ pc = "move_corner"
          => (pc' = "check_stamina" /\ pointer' = <<4, 4>>
              /\ UNCHANGED <<file, clickedOn, polls, taskHist>>)
    /\ pc = "check_stamina"
          => /\ UNCHANGED <<file, pointer, clickedOn, polls, taskHist>>
             /\ pc' \in {"stopped", "wait"}
             /\ pc' = "stopped"
                   <=> MatchFile(file, "buystamina.png", scales).confidence
                          >= confidence_threshold

\* C13: the stamina check clicks nothing and takes no screenshot: it runs the Matcher
\* on the screenshot file as the re-check capture of the successful team step wrote
\* it, and between that step and the battle poll the pointer is only moved to the
\* corner (4, 4), without a click.
C13_StaminaCheckReadsOnly == [](C13_State) /\ [][C13_Step]_vars

\* C13 witness: the check let the battle start, on the team step's last capture
C13_Witness ==
    /\ pc = "wait" /\ polls = 0 /\ pointer = <<4, 4>>
    /\ Gone(file, "teamselect.png") /\ file = "battle"
    /\ confidence_threshold = 80

-----------------------------------------------------------------------------
(* Termination of run_click_task *)

\* the scenario with its steps taken as long as one is possible: the program is
\* sequential and runs on while it has a next statement
FairSpec == Spec /\ WF_vars(Next)

\* what is left of the loop: twice the attempts left, less one while a click awaits
\* its re-check
TaskMeasure ==
    CASE tpc = "loop" -> 2 * (Max0(retry_times) - retry_num)
      [] tpc = "recheck" -> 2 * (Max0(retry_times) - retry_num) - 1
      [] OTHER -> 0

\* C14, in a state: the attempt counter, the Clicker calls and the clicks of an
\* invocation never exceed max(retry_times, 0); with a retry limit of 0 or less the
\* invocation makes no Clicker call and returns False after its first capture
C14_State ==
    (pc \in TaskSteps /\ tpc # "idle")
        => /\ 0 <= retry_num /\ retry_num <= Max0(retry_times)
           /\ tClicks <= tCalls /\ tCalls <= Max0(retry_times)
           /\ tCalls = (IF tpc = "recheck" THEN retry_num + 1 ELSE retry_num)
                 \/ (tpc = "returned" /\ task_ret /\ tCalls = retry_num + 1)
           /\ TaskMeasure >= 0
           /\ retry_times <= 0
                 => (tpc # "recheck" /\ tCalls = 0 /\ tClicks = 0 /\ tCaptures = 1
                     /\ (tpc = "returned" => ~task_ret))

\* C14, in a step: a step of the loop returns, or brings the loop nearer its end;
\* a loop iteration that does not return True adds exactly one to the counter
C14_Step ==
    /\ tpc \in {"loop", "recheck"}
          => (tpc' = "returned" \/ TaskMeasure' < TaskMeasure)
    /\ (tpc = "loop" /\ tpc' = "loop") => retry_num' = retry_num + 1
    /\ (tpc = "loop" /\ tpc' = "recheck") => retry_num' = retry_num
    /\ tpc = "recheck"
          => \/ tpc' = "returned" /\ task_ret' /\ retry_num' = retry_num
             \/ tpc' = "loop" /\ retry_num' = retry_num + 1
    /\ (tpc = "loop" /\ tpc' = "returned") => (~task_ret' /\ retry_num' = retry_num)

\* C14: every run_click_task invocation terminates, for every retry limit: with a
\* limit of 0 or less it returns False after the first capture without a Clicker
\* call; each loop iteration returns True or adds exactly one to the attempt
\* counter, so the loop runs at most max(retry_times, 0) iterations and issues at
\* most that many clicks.
C14_TaskTerminates ==
    /\ [](C14_State)
    /\ [][C14_Step]_vars
    /\ (tpc \in {"loop", "recheck"}) ~> (tpc = "returned")

\* C14 witness: a negative retry limit, False returned after the first capture
C14_Witness ==
    /\ retry_times = -1 /\ pc = "select_stage" /\ tpc = "returned" /\ ~task_ret
    /\ tCalls = 0 /\ tClicks = 0 /\ tCaptures = 1 /\ file # NoFile

-----------------------------------------------------------------------------
(* The Clicker calls of one invocation agree *)

\* C15, in a state: the Clicker calls of an invocation so far all failed or all
\* succeeded; after a failed call no click was issued and none awaits a re-check,
\* and a False return then comes after retry_times failures on one and the same file
C15_State ==
    (pc \in TaskSteps /\ tpc # "idle")
        => /\ tClicks = 0 \/ tClicks = tCalls
           /\ failedFile # NoFile
                 => (tClicks = 0 /\ tStill = 0 /\ tCaptures = 1 /\ tpc # "recheck"
                     /\ file = failedFile)
           /\ (failedFile # NoFile /\ tpc = "returned")
                 => (~task_ret /\ tCalls = retry_times)
           /\ (tClicks >= 1 /\ tpc = "loop") => ~Gone(file, TaskTemplate(pc))

\* C15, in a step: a Clicker call made after an earlier call of the invocation has
\* the earlier call's outcome
C15_Step ==
    (pc \in TaskSteps /\ tpc = "loop" /\ tCalls >= 1 /\ tCalls' = tCalls + 1)
        => /\ tClicks = 0 => (tClicks' = 0 /\ tpc' = "loop" /\ file' = file)
           /\ tClicks >= 1 => (tClicks' = tClicks + 1 /\ tpc' = "recheck")

\* C15: all Clicker calls of one run_click_task invocation have the same outcome: if
\* the first fails, every later one fails, no click is issued and False is returned
\* after retry_times failures on the same file; if the first succeeds, every later
\* one succeeds too, reading the re-check capture just found at or above the
\* threshold.
C15_SameOutcome == [](C15_State) /\ [][C15_Step]_vars

\* C15 witness: two successful Clicker calls, the second on the re-check capture
C15_Witness ==
    /\ pc \in TaskSteps /\ tpc = "recheck"
    /\ tCalls = 2 /\ tClicks = 2 /\ tStill = 1 /\ failedFile = NoFile

-----------------------------------------------------------------------------
(* The battle wait *)

\* ceil(n / 10) for n >= 0
CeilTenth(n) == (n + 9) \div 10

\* C16, in a state: the k-th poll of a wait completes no earlier than 10 k seconds
\* after its start; with max_battle_time <= 0 there is no poll and no dismiss click;
\* when capture and match took no time (the k-th poll completed at 10 k), there are
\* at most ceil(max_battle_time / 10) polls and the wait has lasted no longer than
\* max_battle_time + 10 seconds
C16_State ==
    /\ polls >= 1 => lastPoll >= 10 * polls
    /\ pc = "wait" => (now = lastPoll /\ max_time_out = max_battle_time)
    /\ max_battle_time <= 0
          => (polls = 0 /\ "success.png" \notin clickedOn
              /\ pc \notin {"dismiss", "return"} /\ iter = 1)
    /\ lastPoll = 10 * polls
          => (polls <= CeilTenth(Max0(max_battle_time))
              /\ lastPoll <= Max0(max_battle_time) + 10)

\* C16, in a step: a poll is made only from the wait, only if the deadline had not
\* passed at the loop test, and takes at least the 10 seconds of its sleep; once the
\* deadline has passed at the loop test, no poll is made and the scenario stops with
\* the timeout message
C16_Step ==
    /\ polls' = polls + 1
          => (pc = "wait" /\ now < max_time_out /\ now' >= now + 10
              /\ lastPoll' = now')
    /\ (pc = "wait" /\ now >= max_time_out)
          => (pc' = "stopped" /\ polls' = polls /\ file' = file
              /\ output' = Append(output, "Battle failed! End script."))

\* C16: in the battle wait the deadline is tested only before a poll and every poll
\* starts with a 10-second sleep: no poll completes within 10 seconds of the start,
\* a poll starts only if the deadline had not passed at the loop test, with
\* max_battle_time <= 0 no poll is made and the scenario stops on the timeout, and
\* with instantaneous capture and match at most ceil(max_battle_time / 10) polls are
\* made and the wait ends no later than max_battle_time + 10 seconds after it began.
C16_BattleWait == [](C16_State) /\ [][C16_Step]_vars

\* C16 witness: max_battle_time 15, polls at 10 and 20 seconds, then the timeout
C16_Witness ==
    /\ pc = "stopped" /\ max_battle_time = 15 /\ polls = 2 /\ lastPoll = 20
    /\ output[Len(output)] = "Battle failed! End script."

-----------------------------------------------------------------------------
(* A confidence equal to the threshold is a match *)

\* the confidence the Matcher finds for a template on a screenshot file
Conf(screen, name) == MatchFile(screen, name, scales).confidence

\* C17, the Clicker: it clicks at or above the threshold, not below it
C17_Clicker ==
    (pc \in TaskSteps /\ tpc = "loop" /\ tCalls' = tCalls + 1)
        => LET c == Conf(file, TaskTemplate(pc))
           IN  /\ c >= confidence_threshold
                     => (tClicks' = tClicks + 1 /\ tpc' = "recheck")
               /\ c < confidence_threshold
                     => (tClicks' = tClicks /\ tpc' = "loop" /\ pointer' = pointer)

\* C17, the re-check: at or above the threshold the template is still there (no
\* True return), below it the task returns True
C17_Recheck ==
    (pc \in TaskSteps /\ tpc = "recheck" /\ tpc' # "recheck")
        => LET c == Conf(file', TaskTemplate(pc))
           IN  /\ c >= confidence_threshold
                     => (tpc' = "loop" /\ tStill' = tStill + 1
                         /\ retry_num' = retry_num + 1)
               /\ c < confidence_threshold => (tpc' = "returned" /\ task_ret')

\* C17, the stamina check: at or above the threshold the scenario stops, below it
\* the battle wait starts
C17_Stamina ==
    (pc = "check_stamina" /\ pc' # pc)
        => LET c == Conf(file, "buystamina.png")
           IN  /\ c >= confidence_threshold => pc' = "stopped"
               /\ c < confidence_threshold => pc' = "wait"

\* C17, the battle poll: at or above the threshold the battle is won, below it the
\* wait goes on
C17_Poll ==
    polls' = polls + 1
        => LET c == Conf(file', "success.png")
           IN  /\ c >= confidence_threshold => (pc' = "dismiss" /\ success')
               /\ c < confidence_threshold => (pc' = "wait" /\ ~success')

\* C17: every threshold comparison of the program counts a confidence equal to the
\* threshold as a match: the Clicker clicks, the re-check finds the element still
\* there, the stamina check stops the scenario and the poll counts the battle as
\* won; only a confidence strictly below the threshold is a non-match.
C17_EqualIsMatch ==
    [][C17_Clicker /\ C17_Recheck /\ C17_Stamina /\ C17_Poll]_vars

\* C17 witness: with threshold 0.8 a poll won at confidence 0.8, the Clicker clicked
\* at 0.8 and the re-check found the success template still there at 0.8
C17_Witness ==
    /\ confidence_threshold = 80 /\ pc = "dismiss" /\ tpc = "loop"
    /\ tClicks = 1 /\ tStill = 1 /\ file = "won"
    /\ Conf(file, "success.png") = confidence_threshold

\* the stamina check met the indicator at exactly the threshold and stopped the run
StaminaAtThreshold ==
    /\ confidence_threshold = 80 /\ pc = "stopped" /\ file = "nostamina"
    /\ Conf(file, "buystamina.png") = confidence_threshold
    /\ output[Len(output)] = "No stamina! End script."

=============================================================================
